---- MODULE Spec2Model ----
(***************************************************************************)
(* The reverse-diffusion sampler DiffusionLM.forward of lightning/diff.py   *)
(* as a state machine: schedule construction, the classifier-free-guidance  *)
(* doubled batch, and the for-loop over t_idx = T-1 .. 0, one action per    *)
(* statement group of the loop body.                                        *)
(*                                                                          *)
(* Numbers.  A tensor element is an exact rational <<n, d>> (d > 0, lowest  *)
(* terms).  An entry of a log-domain tensor (log_snr, log_alpha, log_var)   *)
(* is the record [exp |-> q], the number whose exponential is q: a          *)
(* difference of logs is a quotient, 0.5 * log a square root, and exp       *)
(* takes the record back to the rational q.                                 *)
(* One tensor element stands for each example (seq_length = output_dim = 1);*)
(* every operation of the loop body is elementwise.  Arithmetic inside a    *)
(* step is exact; a square root that is not rational and the latent stored  *)
(* at the end of a step are rounded to a grid (Sqrt, Quant).  tqdm and the  *)
(* verbose flag only report progress and are left out.  A local that is     *)
(* overwritten before it is read again is reset once it is dead, so that    *)
(* states differing only in it coincide.                                    *)
(***************************************************************************)
EXTENDS Integers, Naturals, Sequences, FiniteSets, TLC

\* ------------------------------------------------------------- bounds
MaxT == 3
MaxN == 2
LatentScale == 1
SqrtScale == 4

\* ------------------------------------------------------------- rationals
Abs(k) == IF k < 0 THEN -k ELSE k

RECURSIVE GCD(_, _)
GCD(a, b) == IF b = 0 THEN a ELSE GCD(b, a % b)

Rat(n, d) ==
    LET g == GCD(Abs(n), d) IN <<n \div g, d \div g>>

Zero == <<0, 1>>
One == <<1, 1>>
Int2R(k) == <<k, 1>>

RNeg(x) == <<-x[1], x[2]>>
RAdd(x, y) == Rat(x[1] * y[2] + y[1] * x[2], x[2] * y[2])
RSub(x, y) == RAdd(x, RNeg(y))
RMul(x, y) ==
    LET g1 == GCD(Abs(x[1]), y[2])
        g2 == GCD(Abs(y[1]), x[2])
    IN  <<(x[1] \div g1) * (y[1] \div g2), (x[2] \div g2) * (y[2] \div g1)>>
RInv(x) == IF x[1] > 0 THEN <<x[2], x[1]>> ELSE <<-x[2], -x[1]>>
RDiv(x, y) == RMul(x, RInv(y))
RLe(x, y) == x[1] * y[2] <= y[1] * x[2]
RLt(x, y) == x[1] * y[2] < y[1] * x[2]
RMax(x, y) == IF RLe(x, y) THEN y ELSE x
RMin(x, y) == IF RLe(x, y) THEN x ELSE y

\* floor of the square root of a natural number, by bisection on [lo, hi)
RECURSIVE Bisect(_, _, _)
Bisect(k, lo, hi) ==
    IF hi - lo <= 1 THEN lo
    ELSE LET mid == (lo + hi) \div 2
         IN  IF mid <= k \div mid THEN Bisect(k, mid, hi) ELSE Bisect(k, lo, mid)
ISqrt(k) == Bisect(k, 0, k + 1)
IsSquare(k) == ISqrt(k) * ISqrt(k) = k

\* floor(n * m / d) for n >= 0, d > 0, by m additions of n % d (no product
\* larger than the operands' sum is formed)
RECURSIVE AddFloor(_, _, _, _, _)
AddFloor(r, d, m, quot, rem) ==
    IF m = 0 THEN quot
    ELSE IF rem + r >= d THEN AddFloor(r, d, m - 1, quot + 1, rem + r - d)
         ELSE AddFloor(r, d, m - 1, quot, rem + r)
MulDivFloor(n, m, d) == (n \div d) * m + AddFloor(n % d, d, m, 0, 0)

\* Tensor.sqrt: exact on the square of a rational, otherwise rounded down to
\* a multiple of 1/SqrtScale (finite precision of the result).
Sqrt(x) ==
    IF IsSquare(x[1]) /\ IsSquare(x[2])
    THEN <<ISqrt(x[1]), ISqrt(x[2])>>
    ELSE Rat(ISqrt(MulDivFloor(x[1], SqrtScale * SqrtScale, x[2])), SqrtScale)
Rsqrt(x) == RInv(Sqrt(x))
Relu(x) == RMax(x, Zero)

\* a stored latent element: rounded to the nearest multiple of 1/LatentScale
Quant(x) ==
    Rat((2 * x[1] * LatentScale + x[2]) \div (2 * x[2]), LatentScale)

\* torch.clamp(x, min, max) = min(max(x, min), max)
Clamp(x, lo, hi) == RMin(RMax(x, lo), hi)

\* ------------------------------------------------------------- sequences
At(s, i) == s[i + 1]                       \* 0-based indexing s[i]
Front(s) == SubSeq(s, 1, Len(s) - 1)       \* s[:-1]
Rest(s) == SubSeq(s, 2, Len(s))            \* s[1:]
\* variant: rows repeated in place (repeat_interleave)
RepeatInterleave(s) == [i \in 1..(2 * Len(s)) |-> s[(i + 1) \div 2]]
Repeat2(s) == s \o s                       \* s.repeat(2, ...) along dim 0
Chunk1(s) == SubSeq(s, 1, Len(s) \div 2)   \* s.chunk(2, dim=0)[0]
Chunk2(s) == SubSeq(s, Len(s) \div 2 + 1, Len(s))   \* s.chunk(2, dim=0)[1]

\* ------------------------------------------------------------- schedule
\* torch.linspace(0, 1, T): T points, a single point being the start
linspace(T_) ==
    [i \in 1..T_ |-> IF T_ = 1 THEN Zero ELSE Rat(i - 1, T_ - 1)]

\* tan(a*t + b) through the half-angle tangent u(t), taken linear in t between
\* HalfTanMin = tan(b/2) and HalfTanMax = tan((a+b)/2), so that tan, and both
\* alpha and sqrt(var), are rational; logsnr_max / logsnr_min fix the two
\* ends (scaled down here so that products stay within 32-bit integers).
HalfTanMin == <<1, 3>>
HalfTanMax == <<2, 3>>
TanAt(x) ==
    LET u == RAdd(HalfTanMin, RMul(RSub(HalfTanMax, HalfTanMin), x))
    IN  RDiv(RMul(Int2R(2), u), RSub(One, RMul(u, u)))

\* ------------------------------------------------------------- log domain
\* A log-domain entry is [exp |-> q]: the number whose exponential is q.
LogR(q) == [exp |-> q]                                  \* torch.log
Exp(x) == x.exp                                         \* torch.exp
LSub(x, y) == [exp |-> RDiv(x.exp, y.exp)]              \* x - y
LAdd(x, y) == [exp |-> RMul(x.exp, y.exp)]              \* x + y
LNeg(x) == [exp |-> RInv(x.exp)]                        \* -x
LHalf(x) == [exp |-> Sqrt(x.exp)]                       \* 0.5 * x
LTwice(x) == [exp |-> RMul(x.exp, x.exp)]               \* 2.0 * x
Softplus(x) == [exp |-> RAdd(One, x.exp)]               \* log(1 + exp(x))
Expm1(x) == RSub(x.exp, One)                            \* exp(x) - 1

\* get_log_snr(t) = -2.0 * log(tan(a*t + b))
get_log_snr(x) == LNeg(LTwice(LogR(TanAt(x))))

\* log_snr2logas: log_var = -softplus(log_snr);
\* returns (0.5 * (log_snr + log_var), log_var)
log_snr2logas(ls) ==
    LET lv == LNeg(Softplus(ls)) IN <<LHalf(LAdd(ls, lv)), lv>>

\* variant: the two slices exchanged
AlphaStSwapped(la) ==
    [i \in 1..Len(Front(la)) |-> Exp(LSub(Rest(la)[i], Front(la)[i]))]

\* alpha_st = torch.exp(log_alpha[:-1] - log_alpha[1:])
AlphaSt(la) ==
    [i \in 1..Len(Front(la)) |-> Exp(LSub(Front(la)[i], Rest(la)[i]))]

\* variant: the two slices exchanged
CCoefSwapped(ls) ==
    [i \in 1..Len(Rest(ls)) |-> Relu(RNeg(Expm1(LSub(Front(ls)[i], Rest(ls)[i]))))]

\* c = -torch.expm1(log_snr[1:] - log_snr[:-1]); c.relu_()
CCoef(ls) ==
    [i \in 1..Len(Rest(ls)) |-> Relu(RNeg(Expm1(LSub(Rest(ls)[i], Front(ls)[i]))))]

\* ------------------------------------------------------------- inputs
\* values a standard-normal draw takes (torch.randn, torch.randn_like)
GaussVals == {<<-1, 1>>, <<1, 1>>}
\* values an entry of the noise-prediction model's output takes
NoiseVals == {<<-3, 1>>, <<0, 1>>, <<1, 1>>}
\* values of cfg_weighting (constructor argument, default 2.0)
Weights == {<<0, 1>>, <<1, 1>>, <<2, 1>>}

\* a tensor of k entries drawn from S: odd rows one value, even rows another
Tensors(S, k) == {[i \in 1..k |-> IF i % 2 = 1 THEN g ELSE h] : g \in S, h \in S}
\* an output of self.model for a doubled batch of 2k rows: the rows of the
\* first half alternate g, h, those of the second half h, g
Outputs(k) ==
    {[i \in 1..(2 * k) |-> IF (i % 2 = 1) = (i <= k) THEN g ELSE h] :
        g \in NoiseVals, h \in NoiseVals}

\* the score batch: example i is the token sequence of score i
Scores(k) == [i \in 1..k |-> <<"midi", i>>]
\* side context: absent, or the k feature rows that mel_context holds or that
\* self.mel extracts from wav_context
NoContext == [present |-> FALSE, rows |-> <<>>]
Features(k) == [present |-> TRUE, rows |-> [i \in 1..k |-> <<"mel", i>>]]

Unbound == [bound |-> FALSE, val |-> <<>>]
Bound(v) == [bound |-> TRUE, val |-> v]

\* ------------------------------------------------------------- state
VARIABLES
    cfg_weighting,   \* self.cfg_weighting
    pc,              \* position in forward
    T,               \* argument T
    midi,            \* score batch (doubled after line 117)
    context,         \* side context (doubled after line 119)
    t,               \* rows of the timestep grid (broadcast, line 116)
    log_snr, log_alpha, log_var, var, alpha, alpha_st, c,
    z_t,             \* current latent, one entry per example
    dropout_mask,
    iter,            \* indices range(T-1, -1, -1) has still to yield
    t_idx, s_idx,
    noise_hat, cond_noise_hat, uncond_noise_hat,
    mu,
    final,           \* the local `final`: unbound until line 140 runs
    result,          \* the value forward returns
    \* observations of the run
    call,            \* arguments of the latest self.model invocation
    calls,           \* number of self.model invocations
    visited,         \* the t_idx of every loop iteration, in order
    draws,           \* number of torch.randn_like draws (line 138)
    updates,         \* number of assignments to z_t inside the loop
    finals,          \* number of assignments to final (line 140)
    indexed,         \* indices used on c, alpha_st
    noise_scale      \* factor of the latest randn_like draw

sched == <<T, t, log_snr, log_alpha, log_var, var, alpha, alpha_st, c>>
batch == <<midi, context, dropout_mask>>
locals == <<iter, t_idx, s_idx, noise_hat, cond_noise_hat, uncond_noise_hat, mu>>
obs == <<call, calls, visited, draws, updates, finals, indexed, noise_scale>>
vars == <<cfg_weighting, pc, sched, batch, z_t, locals, final, result, obs>>

NoCall == [made |-> FALSE, midi |-> <<>>, z |-> <<>>, t |-> <<>>,
           context |-> NoContext, dropout_mask |-> <<>>, out |-> <<>>]

\* the state after __init__: nothing of forward has run
Init ==
    /\ cfg_weighting \in Weights
    /\ pc = "init"
    /\ T = 0
    /\ midi = <<>> /\ context = NoContext /\ dropout_mask = <<>>
    /\ t = <<>> /\ log_snr = <<>> /\ log_alpha = <<>> /\ log_var = <<>>
    /\ var = <<>> /\ alpha = <<>> /\ alpha_st = <<>> /\ c = <<>>
    /\ z_t = <<>>
    /\ iter = <<>> /\ t_idx = 0 /\ s_idx = 0
    /\ noise_hat = <<>> /\ cond_noise_hat = <<>> /\ uncond_noise_hat = <<>>
    /\ mu = <<>>
    /\ final = Unbound /\ result = Unbound
    /\ call = NoCall /\ calls = 0 /\ visited = <<>> /\ draws = 0
    /\ updates = 0 /\ finals = 0 /\ indexed = {} /\ noise_scale = Zero

\* ------------------------------------------------------------- forward
\* variant: range(T - 1, 0, -1)
RangeStopsAtOne(T_) == [k \in 1..(T_ - 1) |-> T_ - k]

\* range(T - 1, -1, -1)
Range(T_) == [k \in 1..T_ |-> T_ - k]

\* torch.tensor([0] * k + [1] * k).bool()
DropoutMask(k) == [i \in 1..k |-> FALSE] \o [i \in 1..k |-> TRUE]

\* variant: the two halves exchanged
GuideSwapped(w, x, y) == RAdd(RMul(y, w), RMul(x, RSub(One, w)))

\* cond_noise_hat * cfg_weighting + uncond_noise_hat * (1 - cfg_weighting)
Guide(w, x, y) == RAdd(RMul(x, w), RMul(y, RSub(One, w)))

\* variant: bounds scaled by 1 / var instead of var.rsqrt()
ClampNoiseByVar(x, z, a, v) ==
    Clamp(x, RMul(RSub(z, a), RInv(v)), RMul(RAdd(a, z), RInv(v)))

\* noise_hat.clamp_((z_t - alpha[t_idx]) * var[t_idx].rsqrt(),
\*                  (alpha[t_idx] + z_t) * var[t_idx].rsqrt())
ClampNoise(x, z, a, v) ==
    Clamp(x, RMul(RSub(z, a), Rsqrt(v)), RMul(RAdd(a, z), Rsqrt(v)))

\* mu = (z_t - var[t_idx].sqrt() * c[s_idx] * noise_hat) * alpha_st[s_idx]
MeanOf(z, x, v, cs, ast) ==
    RMul(RSub(z, RMul(RMul(Sqrt(v), cs), x)), ast)

\* (var[s_idx] * c[s_idx]).sqrt()
NoiseScale(v, cs) == Sqrt(RMul(v, cs))

\* final = (z_t - var[0].sqrt() * noise_hat) / alpha[0]
FinalOf(z, x, v0, a0) == RDiv(RSub(z, RMul(Sqrt(v0), x)), a0)

\* variant: s_idx = t_idx
SIdxSame(i) == i

\* s_idx = t_idx - 1
SIdx(i) == i - 1

\* the context rows and the score rows of the doubled batch line up
ContextFits == ~context.present \/ Len(context.rows) = Len(midi)

\* lines 93-119: context selection, schedule, initial latent, doubled batch
Forward(k, ctx, steps, z0) ==
    /\ pc = "init"
    /\ T' = steps
    /\ LET grid == linspace(steps)
           ls == [i \in 1..Len(grid) |-> get_log_snr(grid[i])]
           la == [i \in 1..Len(ls) |-> log_snr2logas(ls[i])[1]]
           lv == [i \in 1..Len(ls) |-> log_snr2logas(ls[i])[2]]
       IN  /\ log_snr' = ls
           /\ log_alpha' = la
           /\ log_var' = lv
           /\ var' = [i \in 1..Len(lv) |-> Exp(lv[i])]
           /\ alpha' = [i \in 1..Len(la) |-> Exp(la[i])]
           /\ alpha_st' = AlphaSt(la)
           /\ c' = CCoef(ls)
           /\ t' = [j \in 1..(2 * k) |-> grid]
    /\ z_t' = z0
    /\ dropout_mask' = DropoutMask(k)
    /\ midi' = Repeat2(Scores(k))
    /\ context' = IF ctx.present
                  THEN [present |-> TRUE, rows |-> Repeat2(ctx.rows)]
                  ELSE NoContext
    /\ iter' = Range(steps)
    /\ pc' = "loop"
    /\ UNCHANGED <<cfg_weighting, t_idx, s_idx, noise_hat, cond_noise_hat,
                   uncond_noise_hat, mu, final, result, obs>>

\* lines 121-122: the for statement yields the next index
LoopNext ==
    /\ pc = "loop" /\ iter # <<>>
    /\ t_idx' = Head(iter)
    /\ iter' = Tail(iter)
    /\ s_idx' = SIdx(Head(iter))
    /\ visited' = Append(visited, Head(iter))
    /\ pc' = "model"
    /\ UNCHANGED <<cfg_weighting, sched, batch, z_t, noise_hat, cond_noise_hat,
                   uncond_noise_hat, mu, final, result, call, calls, draws,
                   updates, finals, indexed, noise_scale>>

\* line 121: the range is exhausted
LoopExit ==
    /\ pc = "loop" /\ iter = <<>>
    /\ pc' = "tail"
    /\ UNCHANGED <<cfg_weighting, sched, batch, z_t, locals, final, result, obs>>

\* lines 123-127: one invocation of the model on the doubled batch, the
\* split into halves and the guided combination
Predict(out) ==
    /\ pc = "model"
    /\ call' = [made |-> TRUE, midi |-> midi, z |-> Repeat2(z_t),
                t |-> [j \in 1..Len(t) |-> At(t[j], t_idx)],
                context |-> context, dropout_mask |-> dropout_mask,
                out |-> out]
    /\ calls' = calls + 1
    /\ cond_noise_hat' = Chunk1(out)
    /\ uncond_noise_hat' = Chunk2(out)
    /\ noise_hat' = [i \in 1..Len(Chunk1(out)) |->
                        Guide(cfg_weighting, Chunk1(out)[i], Chunk2(out)[i])]
    /\ pc' = "clamp"
    /\ UNCHANGED <<cfg_weighting, sched, batch, z_t, iter, t_idx, s_idx, mu,
                   final, result, visited, draws, updates, finals, indexed,
                   noise_scale>>

\* lines 123-124 with a context batch that does not fit the score batch: the
\* model (not part of forward) may reject the batch it is handed
PredictRaises ==
    /\ pc = "model" /\ ~ContextFits
    /\ call' = [made |-> TRUE, midi |-> midi, z |-> Repeat2(z_t),
                t |-> [j \in 1..Len(t) |-> At(t[j], t_idx)],
                context |-> context, dropout_mask |-> dropout_mask,
                out |-> <<>>]
    /\ calls' = calls + 1
    /\ pc' = "ModelError"
    /\ UNCHANGED <<cfg_weighting, sched, batch, z_t, locals, final, result,
                   visited, draws, updates, finals, indexed, noise_scale>>

\* lines 129-132; the two halves are not read again, and the record of the
\* invocation has been observed
ClampStep ==
    /\ pc = "clamp"
    /\ noise_hat' = [i \in 1..Len(noise_hat) |->
                        ClampNoise(noise_hat[i], z_t[i], At(alpha, t_idx),
                                   At(var, t_idx))]
    /\ cond_noise_hat' = <<>>
    /\ uncond_noise_hat' = <<>>
    /\ call' = NoCall
    /\ pc' = "branch"
    /\ UNCHANGED <<cfg_weighting, sched, batch, z_t, iter, t_idx, s_idx, mu,
                   final, result, calls, visited, draws, updates, finals,
                   indexed, noise_scale>>

\* lines 134-136: s_idx >= 0, the mean of the next latent
Mean ==
    /\ pc = "branch" /\ s_idx >= 0
    /\ indexed' = indexed \cup {s_idx}
    /\ IF s_idx < Len(c)
       THEN /\ mu' = [i \in 1..Len(z_t) |->
                        MeanOf(z_t[i], noise_hat[i], At(var, t_idx),
                               At(c, s_idx), At(alpha_st, s_idx))]
            /\ pc' = "sample"
       ELSE /\ mu' = mu
            /\ pc' = "IndexError"
    /\ UNCHANGED <<cfg_weighting, sched, batch, z_t, iter, t_idx, s_idx,
                   noise_hat, cond_noise_hat, uncond_noise_hat, final, result,
                   call, calls, visited, draws, updates, finals, noise_scale>>

\* lines 137-139: the next latent, with a fresh draw; continue.  The locals
\* of the finished iteration are overwritten before they are read again.
Sample(eps) ==
    /\ pc = "sample"
    /\ noise_scale' = NoiseScale(At(var, s_idx), At(c, s_idx))
    /\ z_t' = [i \in 1..Len(z_t) |->
                  Quant(RAdd(mu[i], RMul(noise_scale', eps[i])))]
    /\ draws' = draws + 1
    /\ updates' = updates + 1
    /\ mu' = <<>> /\ noise_hat' = <<>>
    /\ pc' = "loop"
    /\ UNCHANGED <<cfg_weighting, sched, batch, iter, t_idx, s_idx,
                   cond_noise_hat, uncond_noise_hat, final, result, call,
                   calls, visited, finals, indexed>>

\* line 140: s_idx < 0, the final estimate
Final ==
    /\ pc = "branch" /\ ~(s_idx >= 0)
    /\ final' = Bound([i \in 1..Len(z_t) |->
                         FinalOf(z_t[i], noise_hat[i], At(var, 0), At(alpha, 0))])
    /\ finals' = finals + 1
    /\ pc' = "loop"
    /\ UNCHANGED <<cfg_weighting, sched, batch, z_t, locals, result, call,
                   calls, visited, draws, updates, indexed, noise_scale>>

\* lines 142-144: the value returned, through self.mel[1].reverse on request
Return(rescale) ==
    /\ pc = "tail" /\ final.bound
    /\ result' = Bound([rescaled |-> rescale, val |-> final.val])
    /\ pc' = "done"
    /\ UNCHANGED <<cfg_weighting, sched, batch, z_t, locals, final, obs>>

\* variant: the latent is returned when no final estimate was formed
ReturnLatent ==
    /\ pc = "tail" /\ ~final.bound
    /\ result' = Bound([rescaled |-> FALSE, val |-> z_t])
    /\ pc' = "done"
    /\ UNCHANGED <<cfg_weighting, sched, batch, z_t, locals, final, obs>>

\* lines 142-144 when line 140 never ran: `final` is read before assignment
ReturnUnbound ==
    /\ pc = "tail" /\ ~final.bound
    /\ pc' = "UnboundLocalError"
    /\ UNCHANGED <<cfg_weighting, sched, batch, z_t, locals, final, result, obs>>

\* the side contexts a caller passes: none, or a batch of one or two rows
Contexts == {NoContext, Features(1), Features(2)}

Next ==
    \/ \E k \in 1..MaxN, ctx \in Contexts, steps \in 0..MaxT :
         \E z0 \in Tensors(GaussVals, k) : Forward(k, ctx, steps, z0)
    \/ LoopNext
    \/ LoopExit
    \/ \E out \in Outputs(Len(z_t)) : Predict(out)
    \/ PredictRaises
    \/ ClampStep
    \/ Mean
    \/ \E eps \in Tensors(GaussVals, Len(z_t)) : Sample(eps)
    \/ Final
    \/ \E rescale \in BOOLEAN : Return(rescale)
    \/ ReturnUnbound

Spec == Init /\ [][Next]_vars

\* ------------------------------------------------------------- properties
InBody == pc \in {"model", "clamp", "branch", "sample", "ModelError", "IndexError"}
\* loop iterations that have run to their end
Completed == IF InBody THEN Len(visited) - 1 ELSE Len(visited)
\* the bounds of the clamp and the denoised estimate a noise value implies,
\* for latent entry z at the current index
SigmaNow == Sqrt(At(var, t_idx))
LowerBound(z) == RDiv(RSub(z, At(alpha, t_idx)), SigmaNow)
UpperBound(z) == RDiv(RAdd(z, At(alpha, t_idx)), SigmaNow)
Denoised(z, x) == RDiv(RSub(z, RMul(SigmaNow, x)), At(alpha, t_idx))
InUnit(x) == RLe(<<-1, 1>>, x) /\ RLe(x, One)

\* C1: for T >= 1 one call visits t_idx = T-1, T-2, ..., 0 in strictly
\* decreasing order, each once; every step with t_idx >= 1 replaces the latent
\* and binds no output, the step t_idx = 0 alone binds `final`, and the loop
\* ends right after it.
C1_StepOrder ==
    (pc # "init" /\ T >= 1) =>
        /\ visited = [k \in 1..Len(visited) |-> T - k]
        /\ Len(visited) <= T
        /\ Len(visited) = T - Len(iter)
        /\ updates = (IF Completed = T THEN T - 1 ELSE Completed)
        /\ finals = (IF Completed = T THEN 1 ELSE 0)
        /\ final.bound <=> finals = 1
        /\ final.bound => (t_idx = 0 /\ iter = <<>> /\ pc \in {"loop", "tail", "done"})
        /\ pc \in {"tail", "done"} => (Len(visited) = T /\ final.bound)
        /\ pc # "UnboundLocalError"

C1_Witness ==
    pc = "done" /\ T = 3 /\ visited = <<2, 1, 0>> /\ updates = 2 /\ finals = 1

\* C2: fresh Gaussian noise is drawn at exactly the non-terminal steps (T-1
\* draws for T steps), never at t_idx = 0, whose output is
\* (z_t - sqrt(var[0]) * noise_hat) / alpha[0] for the current latent and the
\* clamped prediction; with T = 1 only the terminal branch runs, without a
\* draw, on a grid of one point and empty per-transition arrays, without error.
C2_NoiseOnlyNonTerminal ==
    pc # "init" =>
        /\ draws = updates
        /\ T >= 1 => draws = (IF Completed = T THEN T - 1 ELSE Completed)
        /\ pc = "sample" => t_idx >= 1
        /\ final.bound =>
              /\ t_idx = 0 /\ draws = T - 1
              /\ final.val = [i \in 1..Len(z_t) |->
                    RDiv(RSub(z_t[i], RMul(Sqrt(var[1]), noise_hat[i])), alpha[1])]
              /\ \A i \in 1..Len(z_t) :
                    /\ RLe(LowerBound(z_t[i]), noise_hat[i])
                    /\ RLe(noise_hat[i], UpperBound(z_t[i]))
        /\ T = 1 =>
              /\ draws = 0 /\ updates = 0 /\ indexed = {}
              /\ \A j \in 1..Len(t) : Len(t[j]) = 1
              /\ Len(alpha) = 1 /\ Len(var) = 1
              /\ alpha_st = <<>> /\ c = <<>>
              /\ pc \notin {"sample", "IndexError", "UnboundLocalError"}

C2_Witness ==
    pc = "done" /\ T = 1 /\ draws = 0 /\ calls = 1 /\ result.bound

\* C3: each step invokes the model once, on 2N rows built from the N inputs:
\* rows i and N+i carry the same score, latent entry, timestep and context
\* row, the drop mask is false on the first N rows and true on the last N;
\* the output's first half is cond, its second half uncond, and the guided
\* prediction has N rows.
C3_DoubledBatch ==
    /\ calls = (IF pc = "model" THEN Len(visited) - 1 ELSE Len(visited))
    /\ (pc = "clamp" /\ ContextFits) =>
          LET n == Len(z_t) IN
          /\ call.made
          /\ Len(call.midi) = 2 * n /\ Len(call.z) = 2 * n
          /\ Len(call.t) = 2 * n /\ Len(call.dropout_mask) = 2 * n
          /\ Len(call.out) = 2 * n
          /\ call.context.present => Len(call.context.rows) = 2 * n
          /\ \A i \in 1..n :
                /\ call.midi[i] = <<"midi", i>> /\ call.midi[n + i] = <<"midi", i>>
                /\ call.z[i] = z_t[i] /\ call.z[n + i] = z_t[i]
                /\ call.t[i] = call.t[n + i]
                /\ call.t[i] = (IF T = 1 THEN Zero ELSE Rat(t_idx, T - 1))
                /\ call.context.present =>
                      /\ call.context.rows[i] = <<"mel", i>>
                      /\ call.context.rows[n + i] = <<"mel", i>>
                /\ call.dropout_mask[i] = FALSE
                /\ call.dropout_mask[n + i] = TRUE
                /\ cond_noise_hat[i] = call.out[i]
                /\ uncond_noise_hat[i] = call.out[n + i]
          /\ Len(cond_noise_hat) = n /\ Len(uncond_noise_hat) = n
          /\ Len(noise_hat) = n
          /\ \A i \in 1..n :
                noise_hat[i] = RAdd(RMul(cfg_weighting, call.out[i]),
                                    RMul(RSub(One, cfg_weighting), call.out[n + i]))

C3_Witness ==
    /\ pc = "clamp" /\ Len(z_t) = 2 /\ context.present /\ ContextFits
    /\ calls = 2
    /\ z_t[1] # z_t[2]
    /\ cond_noise_hat[1] # cond_noise_hat[2]
    /\ cond_noise_hat[1] # uncond_noise_hat[1]

\* C4: with cfg_weighting = 1 the guided prediction equals the conditioned
\* half whatever the unconditioned half is, and for every weight
\* w*cond + (1-w)*uncond = uncond + w*(cond - uncond).
C4_Guidance ==
    pc = "clamp" =>
        \A i \in 1..Len(noise_hat) :
            /\ cfg_weighting = One => noise_hat[i] = cond_noise_hat[i]
            /\ noise_hat[i] =
                  RAdd(uncond_noise_hat[i],
                       RMul(cfg_weighting,
                            RSub(cond_noise_hat[i], uncond_noise_hat[i])))

C4_Witness ==
    /\ pc = "clamp" /\ cfg_weighting = One
    /\ cond_noise_hat[1] # uncond_noise_hat[1]
    /\ uncond_noise_hat[1] # Zero

\* C5: after the clamp every entry of noise_hat lies in
\* [(z_t - alpha[t_idx])/sqrt(var[t_idx]), (z_t + alpha[t_idx])/sqrt(var[t_idx])],
\* so the implied denoised estimate lies in [-1, 1]; every entry of the final
\* output before rescaling lies in [-1, 1].
C5_ClampBounds ==
    /\ (pc \in {"branch", "sample"} \/ final.bound) =>
          \A i \in 1..Len(z_t) :
              /\ RLe(LowerBound(z_t[i]), noise_hat[i])
              /\ RLe(noise_hat[i], UpperBound(z_t[i]))
              /\ InUnit(Denoised(z_t[i], noise_hat[i]))
    /\ final.bound => \A i \in 1..Len(final.val) : InUnit(final.val[i])
    /\ result.bound => \A i \in 1..Len(result.val.val) : InUnit(result.val.val[i])

C5_Witness ==
    /\ pc = "done" /\ Len(z_t) = 2 /\ T = 3
    /\ noise_hat[1] = UpperBound(z_t[1])
    /\ final.val[1] = <<-1, 1>>
    /\ RLt(<<-1, 1>>, final.val[2]) /\ RLt(final.val[2], One)

\* C6: before any reverse step the sampler checks that the context batch fits
\* the score/latent batch and on a mismatch fails at once, without invoking
\* the model and without performing a step.
C6_FailFast ==
    (pc # "init" /\ ~ContextFits) =>
        /\ calls = 0
        /\ visited = <<>>
        /\ pc \in {"ShapeError"}

\* C8 as amended: at a non-terminal step t = t_idx >= 1 the factor of
\* (z_t - sqrt(var[t]) * c * noise_hat) in the mean is
\* exp(logAlpha[t-1] - logAlpha[t]) = alpha[t-1] / alpha[t].
C8_AlphaStep ==
    pc = "sample" =>
        /\ t_idx >= 1 /\ s_idx = t_idx - 1
        /\ Exp(LSub(At(log_alpha, t_idx - 1), At(log_alpha, t_idx)))
              = RDiv(At(alpha, t_idx - 1), At(alpha, t_idx))
        /\ \A i \in 1..Len(z_t) :
              mu[i] = RMul(RDiv(At(alpha, t_idx - 1), At(alpha, t_idx)),
                           RSub(z_t[i],
                                RMul(RMul(SigmaNow, At(c, s_idx)), noise_hat[i])))

C8_Witness ==
    pc = "sample" /\ T = 3 /\ t_idx = 1 /\ mu[1] # Zero /\ mu[1] # z_t[1]

\* C8 as stated: the factor is exp(logAlpha[t] - logAlpha[t-1]) = alpha[t] / alpha[t-1].
C8_Original ==
    pc = "sample" =>
        \A i \in 1..Len(z_t) :
            mu[i] = RMul(Exp(LSub(At(log_alpha, t_idx), At(log_alpha, t_idx - 1))),
                         RSub(z_t[i],
                              RMul(RMul(SigmaNow, At(c, s_idx)), noise_hat[i])))

\* the coefficient as the code has it, and as C9 states it
CoefCode == Relu(RSub(One, Exp(LSub(At(log_snr, t_idx), At(log_snr, t_idx - 1)))))
CoefStated == Relu(RSub(One, Exp(LSub(At(log_snr, t_idx - 1), At(log_snr, t_idx)))))

\* C9 as amended: at a non-terminal step t = t_idx >= 1 the coefficient in the
\* mean and in the injected-noise variance var[t-1] * c is
\* c = relu(1 - exp(logSNR[t] - logSNR[t-1])); it is never negative and is
\* the same value in both places.
C9_Coefficient ==
    /\ \A k \in 1..Len(c) : RLe(Zero, c[k])
    /\ \A k \in 1..(Len(log_snr) - 1) : RLt(Exp(log_snr[k + 1]), Exp(log_snr[k]))
    /\ pc = "sample" =>
          /\ t_idx >= 1
          /\ At(c, s_idx) = CoefCode
          /\ \A i \in 1..Len(z_t) :
                mu[i] = RMul(RSub(z_t[i], RMul(RMul(SigmaNow, CoefCode), noise_hat[i])),
                             At(alpha_st, s_idx))
    /\ (pc = "loop" /\ draws >= 1 /\ ~final.bound) =>
          /\ t_idx >= 1
          /\ noise_scale = Sqrt(RMul(At(var, t_idx - 1), CoefCode))

C9_Witness ==
    /\ pc = "loop" /\ draws = 2 /\ ~final.bound
    /\ RLt(Zero, At(c, s_idx)) /\ RLt(Zero, noise_scale)

\* C9 as stated: c = relu(1 - exp(logSNR[t-1] - logSNR[t])).
C9_Original ==
    pc = "sample" => At(c, s_idx) = CoefStated

\* C10: with T = 0 the loop body never runs, the model is never invoked,
\* `final` is never bound and the call ends in an error, returning nothing;
\* for T >= 1 `final` is bound exactly once, and the arrays of length T-1 are
\* indexed only with s_idx = t_idx - 1 in [0, T-2].
C10_OutputNeedsAStep ==
    /\ (pc # "init" /\ T = 0) =>
          /\ calls = 0 /\ visited = <<>> /\ finals = 0 /\ updates = 0
          /\ ~final.bound /\ ~result.bound
          /\ pc \in {"loop", "tail", "UnboundLocalError"}
    /\ result.bound => (final.bound /\ visited # <<>> /\ calls >= 1 /\ T >= 1)
    /\ finals <= 1
    /\ (pc = "done" /\ T >= 1) => finals = 1
    /\ (pc # "init" /\ T >= 1) =>
          /\ Len(alpha_st) = T - 1 /\ Len(c) = T - 1
          /\ \A s \in indexed : 0 <= s /\ s <= T - 2
          /\ pc \in {"sample"} => (s_idx = t_idx - 1 /\ s_idx \in indexed)
          /\ pc # "IndexError"

C10_Witness ==
    pc = "UnboundLocalError" /\ T = 0 /\ calls = 0 /\ ~result.bound
====
